---- MODULE Spec2Model ----
(***************************************************************************)
(* Model of the planning engine of the Autonomous Path Planning            *)
(* Visualizer (PathPlanningVisualizer.jsx): the grid helpers, MinHeap,     *)
(* reconstruct, runDijkstra, runAStar and runRRTStar.                      *)
(*                                                                         *)
(* Representation choices:                                                 *)
(*   - a coordinate {r, c} is the pair <<r, c>>; key(r, c), the string     *)
(*     "r,c", is modelled by the same pair (key is injective on integer    *)
(*     pairs and cur.split(",").map(Number) is its inverse);               *)
(*   - a grid is a function 0..rows-1 -> (0..cols-1 -> [wall, weight]);    *)
(*   - the JS objects dist, g, f, came are functions whose DOMAIN is the   *)
(*     set of keys that have been assigned (x[k] === undefined is          *)
(*     k \notin DOMAIN x);                                                 *)
(*   - a priority is a pair <<a, d>> standing for the number a + sqrt(d),  *)
(*     compared exactly.  Dijkstra and Manhattan priorities have d = 0;    *)
(*     under Euclidean distance d = dr^2 + dc^2.  IEEE doubles order these *)
(*     values as the reals do on the grids considered here (distinct       *)
(*     values differ by far more than one ulp, equal values are computed   *)
(*     exactly or by the same expression).                                 *)
(***************************************************************************)
EXTENDS Integers, Sequences, FiniteSets, TLC

VARIABLES grid, start, goal, diag, algo, opts, pc,
          pq, dist, g, f, came, visited, path,
          nodes, it, goalIndex,
          lastRun,
          pushes, pops, lastPop,
          uiRows, uiCols, animating, effectDue, saved, reading, loaded,
          plays, quiet

vars == <<grid, start, goal, diag, algo, opts, pc,
          pq, dist, g, f, came, visited, path,
          nodes, it, goalIndex,
          lastRun,
          pushes, pops, lastPop,
          uiRows, uiCols, animating, effectDue, saved, reading, loaded,
          plays, quiet>>

searchVars == <<pq, dist, g, f, came, visited>>
rrtVars == <<nodes, it, goalIndex>>
inputVars == <<grid, start, goal, diag, algo, opts>>
\* the calls made on a MinHeap of its own: push calls, successful pop calls,
\* what the last pop returned (lastPop)
heapVars == <<pushes, pops, lastPop>>
\* the component's remaining state: rows, cols (uiRows, uiCols), animating, whether the
\* [rows, cols] effect is still to run, the last file written by exportJSON,
\* the file a FileReader is reading, the file whose import was the last thing
\* done (loaded)
uiVars == <<uiRows, uiCols, animating, effectDue, saved, reading, loaded,
            plays, quiet>>
\* the playbacks of animate() that are waiting on a timer (plays), and whether
\* the display was emptied by reset() or the effect and neither Compute nor
\* Animate was pressed since (quiet)
playVars == <<plays, quiet>>
\* what a planner run leaves alone: the result kept from the previous run
\* (lastRun), the heap calls and the component's remaining state
restVars == <<lastRun, heapVars, uiVars>>

(***************************************************************************)
(* Bounds of the model.                                                    *)
(***************************************************************************)
MaxRows == 3
MaxCols == 3
\* at most MaxMarked cells of a grid are walls or heavy
MaxMarked == 2

\* the grids and the sampling budget of the RRT* runs
RrtRows == 2
RrtCols == 3
RrtWalls == 1
RrtHeavy == 1
MaxIter == 3

\* the wider grids of the 8-connected runs: no weights, start in the last
\* column, goal in the first
WideRows == 4
WideCols == 5
WideWalls == 2

\* the square grids of the 8-connected runs towards a heavy goal: up to
\* SquareWalls walls, start in the last column, goal in a corner of the first
SquareSide == 5
SquareWalls == 2

\* the grids of the runs followed to their end
\* at most MaxPlays playbacks of animate wait on a timer; the goal of a played
\* scene is PlayReach cells from the start
MaxPlays == 2
PlayReach == 2
LiveRows == 2
LiveCols == 3
LiveWalls == 1
LiveHeavy == 1
LiveIter == 2

\* the grids of the runs on invalid input
BadRows == 2
BadCols == 2
BadWalls == 1

\* the grids of the runs made twice
TwiceRows == 2
TwiceCols == 3
TwiceMarked == 2

\* the calls made on a MinHeap of its own: at most MaxPushes push calls, of
\* priorities 0..MaxPrio (and sqrt 2) with payloads from HeapNodes
MaxPushes == 4
MaxPrio == 2

\* the sizes the Rows and Cols inputs are set to: MinRows..UiMaxRows and
\* MinCols..UiMaxCols
UiMaxRows == 9
UiMaxCols == 9

\* line 422: const batchSize = 3
BatchSize == 3
\* line 497: 6 + Math.floor(Math.random() * 8), the least weight drawn
RandomWeight == 6

\* the least values of the Rows and Cols inputs: clamp(..., 8, 60), clamp(..., 8, 80)
MinRows == 8
MinCols == 8

\* the options of the UI's calls: { iterations: 2500, radius: 4, step: 2 }
UiRadius == 4
UiStep == 2

\* the weight brush's default value (useState(5)); weights are 1 or Heavy
Heavy == 5

(***************************************************************************)
(* Helpers (lines 35-67).                                                  *)
(***************************************************************************)
DIRS4 == << <<1, 0>>, <<-1, 0>>, <<0, 1>>, <<0, -1>> >>

DIRS8 == DIRS4 \o << <<1, 1>>, <<1, -1>>, <<-1, 1>>, <<-1, -1>> >>

Abs(n) == IF n < 0 THEN -n ELSE n

Max2(a, b) == IF a < b THEN b ELSE a

\* manhattan(a, b) as a priority: an integer
manhattan(a, b) == <<Abs(a[1] - b[1]) + Abs(a[2] - b[2]), 0>>

\* euclid(a, b) = Math.hypot(dr, dc) as a priority: sqrt(dr^2 + dc^2)
euclid(a, b) == <<0, (a[1] - b[1]) * (a[1] - b[1]) + (a[2] - b[2]) * (a[2] - b[2])>>

inBounds(r, c, rows, cols) == r >= 0 /\ r < rows /\ c >= 0 /\ c < cols

\* a mutant of DirsOf: the diagonal flag is ignored
DirsOfAlways8(dg) == DIRS8

\* the directions used by neighbors
DirsOf(dg) == IF dg THEN DIRS8 ELSE DIRS4

\* neighbors(r, c, rows, cols, diag): the in-bounds cells, in DIRS order
neighbors(r, c, rows, cols, dg) ==
  LET dirs == DirsOf(dg)
      cand == [i \in 1..Len(dirs) |-> <<r + dirs[i][1], c + dirs[i][2]>>]
  IN  SelectSeq(cand, LAMBDA p : inBounds(p[1], p[2], rows, cols))

\* a mutant of EnterCost: every move costs 1
EnterCostUnit(gr, nb) == 1

\* grid[nb.r][nb.c].weight ?? 1: the cost of a move into the cell nb
EnterCost(gr, nb) == gr[nb[1]][nb[2]].weight

\* grid.length and grid[0].length
RowsOf(gr) == Cardinality(DOMAIN gr)
ColsOf(gr) == Cardinality(DOMAIN gr[0])

(***************************************************************************)
(* Numbers of the form a + sqrt(d).                                        *)
(***************************************************************************)
\* p < q for p = a1 + sqrt(d1), q = a2 + sqrt(d2)
NumLess(p, q) ==
  LET d == q[1] - p[1]
      L == p[2] - d * d - q[2]
      M == q[2] - p[2] - d * d
  IN  IF p[2] = q[2] THEN d > 0
      ELSE IF d >= 0 THEN (L < 0 \/ L * L < 4 * d * d * q[2])
      ELSE (M > 0 /\ 4 * d * d * p[2] < M * M)

NumEq(p, q) == ~NumLess(p, q) /\ ~NumLess(q, p)

NumLeq(p, q) == ~NumLess(q, p)

\* g + h
NumAdd(n, p) == <<n + p[1], p[2]>>

(***************************************************************************)
(* MinHeap (lines 69-113).  The array a is a sequence indexed from 1; the  *)
(* index i of the source is i + 1 here.                                    *)
(***************************************************************************)
Swap(a, i, j) == [a EXCEPT ![i] = a[j], ![j] = a[i]]

\* #up(i), i the 0-based index of the source
RECURSIVE HeapUp(_, _)
HeapUp(a, i) ==
  IF i > 0
  THEN LET p == (i - 1) \div 2
       IN  IF NumLeq(a[p + 1].prio, a[i + 1].prio) THEN a
           ELSE HeapUp(Swap(a, p + 1, i + 1), p)
  ELSE a

\* a mutant of #down: the entry moved to the root is left there
HeapDownNone(a, i) == a

\* #down(i)
RECURSIVE HeapDown(_, _)
HeapDown(a, i) ==
  LET n == Len(a)
      l == i * 2 + 1
      r == l + 1
      m1 == IF l < n /\ NumLess(a[l + 1].prio, a[i + 1].prio) THEN l ELSE i
      m == IF r < n /\ NumLess(a[r + 1].prio, a[m1 + 1].prio) THEN r ELSE m1
  IN  IF m = i THEN a ELSE HeapDown(Swap(a, i + 1, m + 1), m)

\* push(x)
HeapPush(a, x) == HeapUp(Append(a, x), Len(a))

\* a mutant of pop: the last entry of the array is returned, not the root
HeapPopLast(a) == [top |-> a[Len(a)], a |-> SubSeq(a, 1, Len(a) - 1)]

\* pop() on a non-empty heap: the entry returned and the array left
HeapPop(a) ==
  LET top == a[1]
      last == a[Len(a)]
      rest == SubSeq(a, 1, Len(a) - 1)
  IN  [top |-> top,
       a |-> IF Len(rest) > 0 THEN HeapDown([rest EXCEPT ![1] = last], 0) ELSE rest]

\* pop(): what it returns (null on an empty heap, else the entry) and the
\* array left
pop(a) ==
  IF Len(a) = 0 THEN [ret |-> [kind |-> "null"], a |-> a]
  ELSE LET r == HeapPop(a)
       IN  [ret |-> [kind |-> "entry", prio |-> r.top.prio, node |-> r.top.node],
            a |-> r.a]

\* get size()
size(a) == Len(a)

(***************************************************************************)
(* reconstruct (lines 115-125).                                            *)
(***************************************************************************)
\* the while loop: the keys from cur back along cameFrom, in push order
RECURSIVE ReconstructWalk(_, _)
ReconstructWalk(cameFrom, cur) ==
  IF cur \in DOMAIN cameFrom
  THEN <<cur>> \o ReconstructWalk(cameFrom, cameFrom[cur])
  ELSE <<cur>>

Reverse(s) == [i \in 1..Len(s) |-> s[Len(s) + 1 - i]]

\* a mutant of reconstruct: the path is not reversed
reconstructUnreversed(cameFrom, gkey) ==
  IF gkey \notin DOMAIN cameFrom THEN <<>>
  ELSE ReconstructWalk(cameFrom, gkey)

\* a mutant of reconstruct: the early return on a goal without predecessor is missing
reconstructNoGuard(cameFrom, gkey) == Reverse(ReconstructWalk(cameFrom, gkey))

reconstruct(cameFrom, gkey) ==
  IF gkey \notin DOMAIN cameFrom THEN <<>>
  ELSE Reverse(ReconstructWalk(cameFrom, gkey))

(***************************************************************************)
(* runDijkstra (lines 128-160).  A run's local state is the record         *)
(* [pq, dist, came, visited, brk]; brk records that the loop was left by   *)
(* break.                                                                  *)
(***************************************************************************)
\* lines 151: the neighbour is new or is reached more cheaply
DijkstraImproves(d, nk, alt) == nk \notin DOMAIN d \/ alt < d[nk]

\* lines 146-156: the for loop over the neighbours nbs[i..] of cur
RECURSIVE DijkstraRelax(_, _, _, _, _)
DijkstraRelax(gr, st, cur, nbs, i) ==
  IF i > Len(nbs) THEN st
  ELSE LET nb == nbs[i]
           cell == gr[nb[1]][nb[2]]
           alt == st.dist[cur] + EnterCost(gr, nb)
       IN  IF cell.wall THEN DijkstraRelax(gr, st, cur, nbs, i + 1)
           ELSE IF DijkstraImproves(st.dist, nb, alt)
           THEN DijkstraRelax(gr,
                  [st EXCEPT !.dist = (nb :> alt) @@ st.dist,
                             !.came = (nb :> cur) @@ st.came,
                             !.pq = HeapPush(st.pq, [prio |-> <<alt, 0>>, node |-> nb])],
                  cur, nbs, i + 1)
           ELSE DijkstraRelax(gr, st, cur, nbs, i + 1)

\* a mutant of the entry: dist and came are tables kept from one call to the
\* next, not locals of the call
DijkstraEntryKept(s) ==
  [pq |-> HeapPush(<<>>, [prio |-> <<0, 0>>, node |-> s]),
   dist |-> (s :> 0) @@ dist, came |-> came, visited |-> <<>>, brk |-> FALSE]

\* lines 129-137: the state on entry to the loop
DijkstraEntry(s) ==
  [pq |-> HeapPush(<<>>, [prio |-> <<0, 0>>, node |-> s]),
   dist |-> (s :> 0), came |-> <<>>, visited |-> <<>>, brk |-> FALSE]

\* lines 140-156: one iteration of while (pq.size)
DijkstraIter(gr, gl, dg, st) ==
  LET popped == HeapPop(st.pq)
      cur == popped.top
      st1 == [st EXCEPT !.pq = popped.a]
  IN  IF ~NumEq(cur.prio, <<st.dist[cur.node], 0>>) THEN st1
      ELSE LET st2 == [st1 EXCEPT !.visited = Append(st.visited, cur.node)]
           IN  IF cur.node = gl THEN [st2 EXCEPT !.brk = TRUE]
               ELSE DijkstraRelax(gr, st2, cur.node,
                      neighbors(cur.node[1], cur.node[2], RowsOf(gr), ColsOf(gr), dg), 1)

\* a mutant of the loop condition: the loop is left after its first iteration
DijkstraLoopsNever(st) == FALSE

\* the loop runs on: the queue is not empty and break was not taken
DijkstraLoops(st) == Len(st.pq) > 0 /\ ~st.brk

RECURSIVE DijkstraLoop(_, _, _, _)
DijkstraLoop(gr, gl, dg, st) ==
  IF DijkstraLoops(st) THEN DijkstraLoop(gr, gl, dg, DijkstraIter(gr, gl, dg, st)) ELSE st

\* the whole call, on a grid with at least one row: {visited, path}
runDijkstra(gr, s, gl, dg) ==
  LET st == DijkstraLoop(gr, gl, dg, DijkstraEntry(s))
  IN  [visited |-> st.visited, path |-> reconstruct(st.came, gl)]

(***************************************************************************)
(* runAStar (lines 162-197).  Local state [pq, g, f, came, visited, brk].  *)
(***************************************************************************)
\* a mutant of Heuristic: the squared distance, without the square root
HeuristicSquared(dg, a, b) == <<euclid(a, b)[2], 0>>

\* the heuristic of lines 172 and 189
Heuristic(dg, a, b) == IF dg THEN euclid(a, b) ELSE manhattan(a, b)

\* line 187
AStarImproves(gg, nk, tentative) == nk \notin DOMAIN gg \/ tentative < gg[nk]

\* lines 182-193
RECURSIVE AStarRelax(_, _, _, _, _, _, _)
AStarRelax(gr, gl, dg, st, cur, nbs, i) ==
  IF i > Len(nbs) THEN st
  ELSE LET nb == nbs[i]
           cell == gr[nb[1]][nb[2]]
           tentative == st.g[cur] + EnterCost(gr, nb)
           fnk == NumAdd(tentative, Heuristic(dg, nb, gl))
       IN  IF cell.wall THEN AStarRelax(gr, gl, dg, st, cur, nbs, i + 1)
           ELSE IF AStarImproves(st.g, nb, tentative)
           THEN AStarRelax(gr, gl, dg,
                  [st EXCEPT !.g = (nb :> tentative) @@ st.g,
                             !.f = (nb :> fnk) @@ st.f,
                             !.came = (nb :> cur) @@ st.came,
                             !.pq = HeapPush(st.pq, [prio |-> fnk, node |-> nb])],
                  cur, nbs, i + 1)
           ELSE AStarRelax(gr, gl, dg, st, cur, nbs, i + 1)

\* lines 163-173
AStarEntry(s, gl, dg) ==
  LET fs == Heuristic(dg, s, gl)
  IN  [pq |-> HeapPush(<<>>, [prio |-> fs, node |-> s]),
       g |-> (s :> 0), f |-> (s :> fs), came |-> <<>>, visited |-> <<>>, brk |-> FALSE]

\* lines 176-193: one iteration of while (pq.size)
AStarIter(gr, gl, dg, st) ==
  LET popped == HeapPop(st.pq)
      cur == popped.top
      st1 == [st EXCEPT !.pq = popped.a]
  IN  IF ~NumEq(cur.prio, st.f[cur.node]) THEN st1
      ELSE LET st2 == [st1 EXCEPT !.visited = Append(st.visited, cur.node)]
           IN  IF cur.node = gl THEN [st2 EXCEPT !.brk = TRUE]
               ELSE AStarRelax(gr, gl, dg, st2, cur.node,
                      neighbors(cur.node[1], cur.node[2], RowsOf(gr), ColsOf(gr), dg), 1)

AStarLoops(st) == Len(st.pq) > 0 /\ ~st.brk

RECURSIVE AStarLoop(_, _, _, _)
AStarLoop(gr, gl, dg, st) ==
  IF AStarLoops(st) THEN AStarLoop(gr, gl, dg, AStarIter(gr, gl, dg, st)) ELSE st

runAStar(gr, s, gl, dg) ==
  LET st == AStarLoop(gr, gl, dg, AStarEntry(s, gl, dg))
  IN  [visited |-> st.visited, path |-> reconstruct(st.came, gl)]

(***************************************************************************)
(* runRRTStar (lines 200-319).  A tree node is [r, c, parent, cost];       *)
(* parent and goalIndex are the source's 0-based indices (-1 for none), so *)
(* node i of the source is nodes[i + 1].  Distances are compared through   *)
(* their squares (exact); a cost, a double in the source, is kept in       *)
(* thousandths, each distance rounded down (CostScale).                    *)
(***************************************************************************)
CostScale == 1000

\* the integer square root of n, searched between lo and hi
RECURSIVE ISqrtIn(_, _, _)
ISqrtIn(n, lo, hi) ==
  IF lo >= hi THEN lo
  ELSE LET mid == (lo + hi + 1) \div 2
       IN  IF mid * mid <= n THEN ISqrtIn(n, mid, hi) ELSE ISqrtIn(n, lo, mid - 1)

DistSq(a, b) == (a.r - b.r) * (a.r - b.r) + (a.c - b.c) * (a.c - b.c)

\* dist(a, b) = Math.hypot(dr, dc), in thousandths
rrtDist(a, b) == ISqrtIn(DistSq(a, b) * CostScale * CostScale, 0, 40 * CostScale)

Pt(p) == [r |-> p[1], c |-> p[2]]

\* isFree(r, c); reading grid[r][c] is guarded by inBounds as in the source
isFree(gr, r, c) ==
  inBounds(r, c, RowsOf(gr), ColsOf(gr)) /\ ~gr[r][c].wall

\* lineFree: the while loop from the cell (x0, y0) with error term err
RECURSIVE LineWalk(_, _, _, _, _, _, _, _, _, _)
LineWalk(gr, x0, y0, x1, y1, dx, dy, sx, sy, err) ==
  IF ~isFree(gr, x0, y0) THEN FALSE
  ELSE IF x0 = x1 /\ y0 = y1 THEN TRUE
  ELSE LET e2 == err * 2
           stepX == e2 > -dy
           err1 == IF stepX THEN err - dy ELSE err
           nx == IF stepX THEN x0 + sx ELSE x0
           stepY == e2 < dx
           err2 == IF stepY THEN err1 + dx ELSE err1
           ny == IF stepY THEN y0 + sy ELSE y0
       IN  LineWalk(gr, nx, ny, x1, y1, dx, dy, sx, sy, err2)

lineFree(gr, a, b) ==
  LET dx == Abs(b.r - a.r)
      dy == Abs(b.c - a.c)
      sx == IF a.r < b.r THEN 1 ELSE -1
      sy == IF a.c < b.c THEN 1 ELSE -1
  IN  LineWalk(gr, a.r, a.c, b.r, b.c, dx, dy, sx, sy, dx - dy)

\* nearest(pt): the first index (0-based) of a node at minimal distance
RECURSIVE NearestFrom(_, _, _, _)
NearestFrom(ns, pt, i, best) ==
  IF i >= Len(ns) THEN best
  ELSE IF DistSq(pt, ns[i + 1]) < DistSq(pt, ns[best + 1])
       THEN NearestFrom(ns, pt, i + 1, i)
       ELSE NearestFrom(ns, pt, i + 1, best)

nearest(ns, pt) == NearestFrom(ns, pt, 1, 0)

\* a mutant of the rounding: the offset is not scaled by step / d
RoundUnscaled(delta, stp, dsq) == delta

\* Math.round(x) for x = delta * stp / sqrt(dsq): the nearest integer, a tie
\* going up (towards +Infinity)
RoundScaled(delta, stp, dsq) ==
  LET num == 4 * delta * delta * stp * stp
      cand == 0..(stp + 1)
  IN  IF delta >= 0
      THEN CHOOSE k \in cand :
             /\ (k = 0 \/ (2 * k - 1) * (2 * k - 1) * dsq <= num)
             /\ (2 * k + 1) * (2 * k + 1) * dsq > num
      ELSE - (CHOOSE m \in cand :
                /\ (2 * m + 1) * (2 * m + 1) * dsq >= num
                /\ (m = 0 \/ (2 * m - 1) * (2 * m - 1) * dsq < num))

\* a mutant of steer: the sample is not truncated to the step
steerUnclamped(from, to, stp) == [r |-> to.r, c |-> to.c]

\* steer(from, to)
steer(from, to, stp) ==
  LET dsq == DistSq(from, to)
  IN  IF dsq <= stp * stp THEN [r |-> to.r, c |-> to.c]
      ELSE [r |-> from.r + RoundScaled(to.r - from.r, stp, dsq),
            c |-> from.c + RoundScaled(to.c - from.c, stp, dsq)]

\* a mutant of the rewiring test: an equal cost re-parents too
RewireNotWorse(alt, nbh) == alt <= nbh.cost

\* line 292: routing nbh through the new node is cheaper
RewireImproves(alt, nbh) == alt < nbh.cost

\* a mutant of the rewiring pass: the radius is not tested
RewiredAnywhere(gr, o, node, newIndex, nbh) ==
  IF lineFree(gr, node, nbh)
  THEN LET alt == node.cost + gr[nbh.r][nbh.c].weight * rrtDist(node, nbh)
       IN  IF alt < nbh.cost
           THEN [nbh EXCEPT !.cost = alt, !.parent = newIndex]
           ELSE nbh
  ELSE nbh

\* lines 287-297: the node nbh after the rewiring pass of the new node
Rewired(gr, o, node, newIndex, nbh) ==
  IF DistSq(nbh, node) <= o.radius * o.radius /\ lineFree(gr, node, nbh)
  THEN LET alt == node.cost + gr[nbh.r][nbh.c].weight * rrtDist(node, nbh)
       IN  IF RewireImproves(alt, nbh)
           THEN [nbh EXCEPT !.cost = alt, !.parent = newIndex]
           ELSE nbh
  ELSE nbh

\* a mutant of the goal connection: the segment to the goal is not walked
ConnectsGoalNear(gr, gl, o, node) == DistSq(node, Pt(gl)) <= o.step * o.step

\* line 299: the new node is connected to the goal
ConnectsGoal(gr, gl, o, node) ==
  DistSq(node, Pt(gl)) <= o.step * o.step /\ lineFree(gr, node, Pt(gl))

\* lines 208-209, 265: the state on entry to the loop
RRTEntry(s) ==
  [nodes |-> << [r |-> s[1], c |-> s[2], parent |-> -1, cost |-> 0] >>,
   visited |-> << s >>, goalIndex |-> -1, brk |-> FALSE]

\* lines 271-304: one iteration of the for loop, on the sample drawn
RRTIter(gr, gl, o, st, sample) ==
  IF ~isFree(gr, sample[1], sample[2]) THEN st
  ELSE LET ni == nearest(st.nodes, Pt(sample))
           from == st.nodes[ni + 1]
           newPt == steer(from, Pt(sample), o.step)
       IN  IF ~isFree(gr, newPt.r, newPt.c) THEN st
           ELSE IF ~lineFree(gr, from, newPt) THEN st
           ELSE LET w == gr[newPt.r][newPt.c].weight
                    newCost == from.cost + w * rrtDist(from, newPt)
                    node == [r |-> newPt.r, c |-> newPt.c, parent |-> ni, cost |-> newCost]
                    newIndex == Len(st.nodes)
                    rew == [j \in 1..Len(st.nodes) |->
                              Rewired(gr, o, node, newIndex, st.nodes[j])]
                    ns == Append(rew, node)
                    vs == Append(st.visited, <<node.r, node.c>>)
                IN  IF ConnectsGoal(gr, gl, o, node)
                    THEN [nodes |-> Append(ns, [r |-> gl[1], c |-> gl[2],
                                               parent |-> newIndex, cost |-> node.cost]),
                          visited |-> vs, goalIndex |-> Len(ns), brk |-> TRUE]
                    ELSE [st EXCEPT !.nodes = ns, !.visited = vs]

\* lines 268-270: what a sample can be: the goal, or a cell drawn by
\* Math.floor(Math.random() * rows), Math.floor(Math.random() * cols)
Samples(gr, gl) ==
  {gl} \cup ((0..Max2(RowsOf(gr) - 1, 0)) \X (0..Max2(ColsOf(gr) - 1, 0)))

\* lines 307-316: the walk from node cur (0-based) along parent, in push order
RECURSIVE RRTWalk(_, _)
RRTWalk(ns, cur) ==
  IF cur = -1 THEN <<>>
  ELSE << <<ns[cur + 1].r, ns[cur + 1].c>> >> \o RRTWalk(ns, ns[cur + 1].parent)

\* a mutant of the path reconstruction: the path is not reversed
RRTPathUnreversed(ns, gi) == IF gi # -1 THEN RRTWalk(ns, gi) ELSE <<>>

RRTPath(ns, gi) == IF gi # -1 THEN Reverse(RRTWalk(ns, gi)) ELSE <<>>

(***************************************************************************)
(* The planners as a state machine.  One run: pc goes "call" -> "loop"     *)
(* (one step per iteration of the while loop) -> "exit" (the loop is left, *)
(* the return statement is next) -> "done"; "threw" is a run ended by an   *)
(* exception.                                                              *)
(***************************************************************************)
Cells(rows, cols) == (0..(rows - 1)) \X (0..(cols - 1))

\* makeGrid and the cell tools: walls carry weight 1, free cells 1 or Heavy
GridOf(rows, cols, W, H) ==
  [r \in 0..(rows - 1) |->
     [c \in 0..(cols - 1) |->
        [wall |-> <<r, c>> \in W,
         weight |-> IF <<r, c>> \in H THEN Heavy ELSE 1]]]

\* the subsets of S of at most k elements
RECURSIVE SubsetsUpTo(_, _)
SubsetsUpTo(S, k) ==
  IF k = 0 THEN {{}}
  ELSE LET prev == SubsetsUpTo(S, k - 1)
       IN  prev \cup {T \cup {x} : T \in prev, x \in S}

\* the grids with at most maxWalls walls and at most maxHeavy heavy cells
Grids(rows, cols, maxWalls, maxHeavy) ==
  {GridOf(rows, cols, wh[1], wh[2]) :
     wh \in {x \in SubsetsUpTo(Cells(rows, cols), maxWalls)
                      \X SubsetsUpTo(Cells(rows, cols), maxHeavy) :
               x[1] \cap x[2] = {}}}

\* the grids with at most maxMarked cells that are walls or heavy
MarkedGrids(rows, cols, maxMarked) ==
  {GridOf(rows, cols, wh[1], wh[2]) :
     wh \in {x \in SubsetsUpTo(Cells(rows, cols), maxMarked)
                      \X SubsetsUpTo(Cells(rows, cols), maxMarked) :
               x[1] \cap x[2] = {} /\ Cardinality(x[1] \cup x[2]) <= maxMarked}}

NoOpts == [iterations |-> 0, radius |-> 0, step |-> 0]

\* no file: nothing exported yet, nothing being read
NoFile == [none |-> TRUE]

\* pop has not been called yet
NothingPopped == [kind |-> "none"]

\* the state outside a planner run, when only planner runs are looked at
InitRest ==
  /\ lastRun = <<>>
  /\ pushes = 0 /\ pops = 0 /\ lastPop = NothingPopped
  /\ uiRows = 0 /\ uiCols = 0 /\ animating = FALSE /\ effectDue = FALSE
  /\ saved = NoFile /\ reading = NoFile /\ loaded = NoFile
  /\ plays = <<>> /\ quiet = FALSE

InitRun ==
  /\ pc = "call"
  /\ pq = <<>> /\ dist = <<>> /\ g = <<>> /\ f = <<>> /\ came = <<>>
  /\ visited = <<>> /\ path = <<>>
  /\ nodes = <<>> /\ it = 0 /\ goalIndex = -1
  /\ InitRest

\* Dijkstra and A* on every grid of the bounded family, every start and goal cell
Init ==
  /\ grid \in MarkedGrids(MaxRows, MaxCols, MaxMarked)
  /\ start \in Cells(MaxRows, MaxCols)
  /\ goal \in Cells(MaxRows, MaxCols)
  /\ diag \in BOOLEAN
  /\ algo \in {"Dijkstra", "AStar"}
  /\ opts = NoOpts
  /\ InitRun

\* const rows = grid.length, cols = grid[0].length throws on a grid without rows
EntryThrows(gr) == RowsOf(gr) = 0

DijkstraCall ==
  /\ pc = "call" /\ algo = "Dijkstra"
  /\ IF EntryThrows(grid)
     THEN pc' = "threw" /\ UNCHANGED searchVars
     ELSE LET st == DijkstraEntry(start)
          IN  /\ pq' = st.pq /\ dist' = st.dist /\ came' = st.came
              /\ visited' = st.visited
              /\ pc' = "loop"
              /\ UNCHANGED <<g, f>>
  /\ UNCHANGED <<inputVars, restVars, rrtVars, path>>

DijkstraStep ==
  /\ pc = "loop" /\ algo = "Dijkstra"
  /\ LET st == DijkstraIter(grid, goal, diag,
                 [pq |-> pq, dist |-> dist, came |-> came, visited |-> visited,
                  brk |-> FALSE])
     IN  /\ pq' = st.pq /\ dist' = st.dist /\ came' = st.came
         /\ visited' = st.visited
         /\ pc' = IF DijkstraLoops(st) THEN "loop" ELSE "exit"
  /\ UNCHANGED <<inputVars, restVars, rrtVars, g, f, path>>

DijkstraReturn ==
  /\ pc = "exit" /\ algo = "Dijkstra"
  /\ path' = reconstruct(came, goal)
  /\ pc' = "done"
  /\ UNCHANGED <<inputVars, restVars, rrtVars, searchVars>>

AStarCall ==
  /\ pc = "call" /\ algo = "AStar"
  /\ IF EntryThrows(grid)
     THEN pc' = "threw" /\ UNCHANGED searchVars
     ELSE LET st == AStarEntry(start, goal, diag)
          IN  /\ pq' = st.pq /\ g' = st.g /\ f' = st.f /\ came' = st.came
              /\ visited' = st.visited
              /\ pc' = "loop"
              /\ UNCHANGED dist
  /\ UNCHANGED <<inputVars, restVars, rrtVars, path>>

AStarStep ==
  /\ pc = "loop" /\ algo = "AStar"
  /\ LET st == AStarIter(grid, goal, diag,
                 [pq |-> pq, g |-> g, f |-> f, came |-> came, visited |-> visited,
                  brk |-> FALSE])
     IN  /\ pq' = st.pq /\ g' = st.g /\ f' = st.f /\ came' = st.came
         /\ visited' = st.visited
         /\ pc' = IF AStarLoops(st) THEN "loop" ELSE "exit"
  /\ UNCHANGED <<inputVars, restVars, rrtVars, dist, path>>

AStarReturn ==
  /\ pc = "exit" /\ algo = "AStar"
  /\ path' = reconstruct(came, goal)
  /\ pc' = "done"
  /\ UNCHANGED <<inputVars, restVars, rrtVars, searchVars>>

NextSearch ==
  \/ DijkstraCall
  \/ DijkstraStep
  \/ DijkstraReturn
  \/ AStarCall
  \/ AStarStep
  \/ AStarReturn

Spec == Init /\ [][NextSearch]_vars

(***************************************************************************)
(* The same call made twice (Compute pressed again on an unchanged scene): *)
(* lastRun keeps what the first call returned.                             *)
(***************************************************************************)
InitTwice ==
  /\ grid \in MarkedGrids(TwiceRows, TwiceCols, TwiceMarked)
  /\ start \in Cells(TwiceRows, TwiceCols)
  /\ goal \in Cells(TwiceRows, TwiceCols)
  /\ diag \in BOOLEAN
  /\ algo \in {"Dijkstra", "AStar"}
  /\ opts = NoOpts
  /\ InitRun

\* lines 400-408: runOnce again, on the same grid, start, goal and diag
RunAgain ==
  /\ pc = "done" /\ lastRun = <<>>
  /\ lastRun' = << [visited |-> visited, path |-> path] >>
  /\ pc' = "call"
  /\ UNCHANGED <<inputVars, searchVars, path, rrtVars, heapVars, uiVars>>

NextTwice ==
  \/ NextSearch
  \/ RunAgain

SpecTwice == InitTwice /\ [][NextTwice]_vars

(***************************************************************************)
(* runRRTStar as a state machine: one step per iteration of the for loop,  *)
(* the sample being the random draw.                                       *)
(***************************************************************************)
RRTCall ==
  /\ pc = "call" /\ algo = "RRTStar"
  /\ IF EntryThrows(grid)
     THEN pc' = "threw" /\ UNCHANGED <<rrtVars, visited>>
     ELSE LET st == RRTEntry(start)
          IN  /\ nodes' = st.nodes /\ visited' = st.visited
              /\ goalIndex' = st.goalIndex /\ it' = 0
              /\ pc' = IF 0 < opts.iterations THEN "loop" ELSE "exit"
  /\ UNCHANGED <<inputVars, restVars, pq, dist, g, f, came, path>>

RRTStep ==
  /\ pc = "loop" /\ algo = "RRTStar"
  /\ \E sample \in Samples(grid, goal) :
       LET st == RRTIter(grid, goal, opts,
                   [nodes |-> nodes, visited |-> visited, goalIndex |-> goalIndex,
                    brk |-> FALSE], sample)
       IN  /\ nodes' = st.nodes /\ visited' = st.visited
           /\ goalIndex' = st.goalIndex
           /\ it' = it + 1
           /\ pc' = IF ~st.brk /\ it + 1 < opts.iterations THEN "loop" ELSE "exit"
  /\ UNCHANGED <<inputVars, restVars, pq, dist, g, f, came, path>>

RRTReturn ==
  /\ pc = "exit" /\ algo = "RRTStar"
  /\ path' = RRTPath(nodes, goalIndex)
  /\ pc' = "done"
  /\ UNCHANGED <<inputVars, restVars, rrtVars, searchVars>>

NextRRT ==
  \/ RRTCall
  \/ RRTStep
  \/ RRTReturn

\* the options of a call: radius 1 and step 1, or the UI's radius and step
RrtOpts ==
  {[iterations |-> MaxIter, radius |-> ra, step |-> st] :
     <<ra, st>> \in {<<1, 1>>, <<UiRadius, UiStep>>}}

InitRRT ==
  /\ grid \in Grids(RrtRows, RrtCols, RrtWalls, RrtHeavy)
  /\ start \in Cells(RrtRows, RrtCols)
  /\ goal \in Cells(RrtRows, RrtCols)
  /\ diag = FALSE
  /\ algo = "RRTStar"
  /\ opts \in RrtOpts
  /\ InitRun

SpecRRT == InitRRT /\ [][NextRRT]_vars

(***************************************************************************)
(* A MinHeap of its own (the array is pq), under any sequence of push and  *)
(* pop calls.                                                              *)
(***************************************************************************)
\* no planner is running
InitIdle ==
  /\ grid = <<>> /\ start = <<0, 0>> /\ goal = <<0, 0>> /\ diag = FALSE
  /\ algo = "none" /\ opts = NoOpts
  /\ pc = "idle"
  /\ pq = <<>> /\ dist = <<>> /\ g = <<>> /\ f = <<>> /\ came = <<>>
  /\ visited = <<>> /\ path = <<>>
  /\ nodes = <<>> /\ it = 0 /\ goalIndex = -1

\* the priorities pushed: whole numbers, and sqrt 2 as A* pushes under diag
HeapPrios == {<<p, 0>> : p \in 0..MaxPrio} \cup {<<0, 2>>}

HeapNodes == {<<0, 0>>, <<0, 1>>}

InitHeap == InitIdle /\ InitRest

HeapPushCall ==
  /\ pushes < MaxPushes
  /\ \E p \in HeapPrios, n \in HeapNodes :
       pq' = HeapPush(pq, [prio |-> p, node |-> n])
  /\ pushes' = pushes + 1
  /\ UNCHANGED <<inputVars, pc, dist, g, f, came, visited, path, rrtVars,
                 lastRun, pops, lastPop, uiVars>>

HeapPopCall ==
  /\ LET r == pop(pq)
     IN  /\ pq' = r.a
         /\ lastPop' = r.ret
         /\ pops' = IF r.ret.kind = "entry" THEN pops + 1 ELSE pops
  /\ UNCHANGED <<inputVars, pc, dist, g, f, came, visited, path, rrtVars,
                 lastRun, pushes, uiVars>>

NextHeap ==
  \/ HeapPushCall
  \/ HeapPopCall

SpecHeap == InitHeap /\ [][NextHeap]_vars

(***************************************************************************)
(* The scene of the component (rows, cols, grid, start, goal) under the    *)
(* Rows and Cols inputs, the cell tools, exportJSON and importJSON (lines  *)
(* 346-393, 437-478).  A scene file is the object JSON.stringify writes:   *)
(* a record with the keys it holds, the grid an array of arrays (indexed   *)
(* from 1) of cells, a coordinate the object {r, c}.  A state update of a  *)
(* handler takes effect when the handler has run; the [rows, cols] effect  *)
(* runs after the render that changed rows or cols and before anything     *)
(* else (effectDue).                                                       *)
(***************************************************************************)
\* the value of a missing key
Undefined == <<>>

makeGrid(rws, cls) ==
  [r \in 0..(rws - 1) |-> [c \in 0..(cls - 1) |-> [wall |-> FALSE, weight |-> 1]]]

\* JSON.stringify and JSON.parse on a coordinate and on a grid
CoordToJson(p) == [r |-> p[1], c |-> p[2]]

CoordFromJson(o) == <<o.r, o.c>>

GridToJson(gr) ==
  [i \in 1..Cardinality(DOMAIN gr) |->
     [j \in 1..Cardinality(DOMAIN gr[i - 1]) |-> gr[i - 1][j - 1]]]

GridFromJson(arr) ==
  [r \in 0..(Len(arr) - 1) |->
     [c \in 0..(Len(arr[r + 1]) - 1) |-> arr[r + 1][c + 1]]]

\* lines 449-450: JSON.stringify({ rows, cols, start, goal, grid }); a key
\* whose value is undefined is left out
SceneJson(rws, cls, s, gl, gr) ==
  LET base == [rows |-> rws, cols |-> cls, grid |-> GridToJson(gr)]
      withStart == IF s = Undefined THEN base
                   ELSE [k \in DOMAIN base \cup {"start"} |->
                           IF k = "start" THEN CoordToJson(s) ELSE base[k]]
  IN  IF gl = Undefined THEN withStart
      ELSE [k \in DOMAIN withStart \cup {"goal"} |->
              IF k = "goal" THEN CoordToJson(gl) ELSE withStart[k]]

\* a file that is not JSON text
InvalidFile == [invalid |-> TRUE]

\* line 464: JSON.parse succeeds
Parses(file) == "invalid" \notin DOMAIN file

\* line 465: if (!data.grid || !data.rows || !data.cols) return
Rejected(data) ==
  \/ "grid" \notin DOMAIN data
  \/ IF "rows" \in DOMAIN data THEN data.rows = 0 ELSE TRUE
  \/ IF "cols" \in DOMAIN data THEN data.cols = 0 ELSE TRUE

\* data.start, data.goal
CoordOf(data, k) == IF k \in DOMAIN data THEN CoordFromJson(data[k]) ELSE Undefined

\* files written by hand: without start, with a grid one row short, with
\* rows = 0, and one that is not JSON
BaseScene ==
  SceneJson(MinRows, MinCols, <<2, 2>>, <<MinRows - 3, MinCols - 3>>,
            makeGrid(MinRows, MinCols))

NoStartFile == [k \in DOMAIN BaseScene \ {"start"} |-> BaseScene[k]]

ShortGridFile == [BaseScene EXCEPT !.grid = GridToJson(makeGrid(MinRows - 1, MinCols))]

ZeroRowsFile == [BaseScene EXCEPT !.rows = 0]

ForeignFiles == {NoStartFile, ShortGridFile, ZeroRowsFile, InvalidFile}

\* the cell the tools are applied to
EditCells == {<<0, 0>>}

\* the tools of handleCell, and those the bounded runs click with
ToolNames == {"wall", "erase", "weight", "start", "goal"}

ToolsUsed == {"wall", "erase", "start"}

\* a settled component of any size of the bounded range, nothing drawn
InitUI ==
  /\ uiRows \in MinRows..UiMaxRows
  /\ uiCols \in MinCols..UiMaxCols
  /\ grid = makeGrid(uiRows, uiCols)
  /\ start = <<2, 2>>
  /\ goal = <<uiRows - 3, uiCols - 3>>
  /\ diag = FALSE /\ algo = "AStar" /\ opts = NoOpts
  /\ pc = "idle"
  /\ pq = <<>> /\ dist = <<>> /\ g = <<>> /\ f = <<>> /\ came = <<>>
  /\ visited = <<>> /\ path = <<>>
  /\ nodes = <<>> /\ it = 0 /\ goalIndex = -1
  /\ lastRun = <<>>
  /\ pushes = 0 /\ pops = 0 /\ lastPop = NothingPopped
  /\ animating = FALSE /\ effectDue = FALSE
  /\ saved = NoFile /\ reading = NoFile /\ loaded = NoFile
  /\ plays = <<>> /\ quiet = FALSE

plannerVars == <<diag, algo, opts, pc, searchVars, path, rrtVars, lastRun, heapVars>>

\* lines 596: setRows(clamp(parseInt(...), 8, 60))
SetRows ==
  /\ ~effectDue
  /\ \E n \in MinRows..UiMaxRows :
       /\ uiRows' = n
       /\ effectDue' = (n # uiRows)
  /\ loaded' = NoFile
  /\ UNCHANGED <<grid, start, goal, plannerVars, uiCols, animating, saved, reading,
                 playVars>>

\* lines 607: setCols(clamp(parseInt(...), 8, 80))
SetCols ==
  /\ ~effectDue
  /\ \E n \in MinCols..UiMaxCols :
       /\ uiCols' = n
       /\ effectDue' = (n # uiCols)
  /\ loaded' = NoFile
  /\ UNCHANGED <<grid, start, goal, plannerVars, uiRows, animating, saved, reading,
                 playVars>>

\* lines 361-366: useEffect(..., [rows, cols])
RunEffect ==
  /\ effectDue
  /\ grid' = makeGrid(uiRows, uiCols)
  /\ start' = <<2, 2>>
  /\ goal' = <<uiRows - 3, uiCols - 3>>
  /\ visited' = <<>> /\ path' = <<>> /\ animating' = FALSE
  /\ effectDue' = FALSE
  /\ quiet' = TRUE
  /\ UNCHANGED <<diag, algo, opts, pc, pq, dist, g, f, came, rrtVars, lastRun,
                 heapVars, uiRows, uiCols, saved, reading, loaded, plays>>

\* lines 376-393: handleCell(r, c) with the tool selected
HandleCell ==
  /\ ~effectDue /\ ~animating
  /\ \E p \in EditCells, tool \in ToolsUsed :
       /\ p[1] \in DOMAIN grid /\ p[2] \in DOMAIN grid[p[1]]
       /\ start' = IF tool = "start" THEN p ELSE start
       /\ goal' = IF tool = "goal" THEN p ELSE goal
       /\ grid' = CASE tool = "wall" ->
                         [grid EXCEPT ![p[1]][p[2]] = [wall |-> TRUE, weight |-> 1]]
                    [] tool = "erase" ->
                         [grid EXCEPT ![p[1]][p[2]] = [wall |-> FALSE, weight |-> 1]]
                    [] tool = "weight" ->
                         [grid EXCEPT ![p[1]][p[2]] = [wall |-> FALSE, weight |-> Heavy]]
                    [] OTHER -> grid
  /\ loaded' = NoFile
  /\ UNCHANGED <<plannerVars, uiRows, uiCols, animating, effectDue, saved, reading,
                 playVars>>

\* lines 448-457: exportJSON
ExportJSON ==
  /\ ~effectDue
  /\ saved' = SceneJson(uiRows, uiCols, start, goal, grid)
  /\ UNCHANGED <<grid, start, goal, plannerVars, uiRows, uiCols, animating,
                 effectDue, reading, loaded, playVars>>

\* lines 459-461, 477: importJSON up to reader.readAsText(file), on the file
\* exported last or on a file written by hand
ImportPick ==
  /\ ~effectDue /\ reading = NoFile
  /\ reading' \in ForeignFiles \cup (IF saved = NoFile THEN {} ELSE {saved})
  /\ UNCHANGED <<grid, start, goal, plannerVars, uiRows, uiCols, animating,
                 effectDue, saved, loaded, playVars>>

\* lines 462-476: reader.onload.  With the updates of the handler batched
\* into one render the effect runs after all of them; with each update
\* rendered at once (updates made outside a React event handler are not
\* batched before React 18) the effect has run before setGrid is called.
ImportLoad ==
  /\ ~effectDue /\ reading # NoFile
  /\ reading' = NoFile
  /\ loaded' = reading
  /\ IF ~Parses(reading)
     THEN UNCHANGED <<grid, start, goal, uiRows, uiCols, visited, path, animating,
                      effectDue, quiet>>
     ELSE IF Rejected(reading)
     THEN UNCHANGED <<grid, start, goal, uiRows, uiCols, visited, path, animating,
                      effectDue, quiet>>
     ELSE /\ uiRows' = reading.rows
          /\ uiCols' = reading.cols
          /\ grid' = GridFromJson(reading.grid)
          /\ start' = CoordOf(reading, "start")
          /\ goal' = CoordOf(reading, "goal")
          /\ visited' = <<>> /\ path' = <<>> /\ animating' = FALSE
          /\ quiet' = TRUE
          /\ \E batched \in BOOLEAN :
               effectDue' = (batched /\ (reading.rows # uiRows \/ reading.cols # uiCols))
  /\ UNCHANGED <<diag, algo, opts, pc, pq, dist, g, f, came, rrtVars, lastRun,
                 heapVars, saved, plays>>

NextUI ==
  \/ SetRows
  \/ SetCols
  \/ RunEffect
  \/ HandleCell
  \/ ExportJSON
  \/ ImportPick
  \/ ImportLoad

SpecUI == InitUI /\ [][NextUI]_vars

(***************************************************************************)
(* The displayed result (lines 400-446, 480-503).  In these actions the    *)
(* variables visited and path are the component's state of those names,    *)
(* the displayed result.  animate() is an async function: between two      *)
(* timers it is a playback waiting in plays, [visited, path] being the     *)
(* result it plays, phase and i the loop and the loop index it waits in.   *)
(* The playbacks resume in any order: each waits for the speed selected    *)
(* when it was started (line 579).                                         *)
(***************************************************************************)
\* lines 403-405, 417-419: the planner call of runOnce and of animate (the
\* deterministic planners; runRRTStar's result is one of many)
PlannerResult ==
  IF algo = "Dijkstra" THEN runDijkstra(grid, start, goal, diag)
  ELSE runAStar(grid, start, goal, diag)

\* result.visited.slice(i, i + n)
Slice(s, i, n) == SubSeq(s, i + 1, IF i + n < Len(s) THEN i + n ELSE Len(s))

\* lines 422-434: the place of the next await of a playback, "end" when both
\* loops are over; phase "entry" is the place before the first loop
NextStage(pb) ==
  LET toPath == IF Len(pb.path) > 0 THEN [pb EXCEPT !.phase = "path", !.i = 0]
                ELSE [pb EXCEPT !.phase = "end", !.i = 0]
  IN  CASE pb.phase = "entry" ->
             IF Len(pb.visited) > 0 THEN [pb EXCEPT !.phase = "visited", !.i = 0]
             ELSE toPath
        [] pb.phase = "visited" ->
             IF pb.i + BatchSize < Len(pb.visited)
             THEN [pb EXCEPT !.i = pb.i + BatchSize]
             ELSE toPath
        [] OTHER ->
             IF pb.i + 1 < Len(pb.path) THEN [pb EXCEPT !.i = pb.i + 1]
             ELSE [pb EXCEPT !.phase = "end", !.i = 0]

\* lines 424, 430, 434: what a playback writes on reaching the stage pb, to
\* the display d = [visited, path, animating]
StageWrites(pb, d) ==
  CASE pb.phase = "visited" ->
         [d EXCEPT !.visited = d.visited \o Slice(pb.visited, pb.i, BatchSize)]
    [] pb.phase = "path" ->
         [d EXCEPT !.path = Append(d.path, pb.path[pb.i + 1])]
    [] OTHER -> [d EXCEPT !.animating = FALSE]

RemoveAt(s, k) == SubSeq(s, 1, k - 1) \o SubSeq(s, k + 1, Len(s))

\* a scene the user has prepared on the smallest grid: the goal put
\* PlayReach cells from the start with the goal tool, an algorithm selected

InitPlay ==
  /\ uiRows = MinRows /\ uiCols = MinCols
  /\ grid = makeGrid(uiRows, uiCols)
  /\ start = <<2, 2>>
  /\ goal = <<2, 2 + PlayReach>>
  /\ diag = FALSE /\ algo = "AStar" /\ opts = NoOpts
  /\ pc = "idle"
  /\ pq = <<>> /\ dist = <<>> /\ g = <<>> /\ f = <<>> /\ came = <<>>
  /\ visited = <<>> /\ path = <<>>
  /\ nodes = <<>> /\ it = 0 /\ goalIndex = -1
  /\ lastRun = <<>>
  /\ pushes = 0 /\ pops = 0 /\ lastPop = NothingPopped
  /\ animating = FALSE /\ effectDue = FALSE
  /\ saved = NoFile /\ reading = NoFile /\ loaded = NoFile
  /\ plays = <<>> /\ quiet = FALSE

\* what the actions of the display leave alone
sceneVars == <<start, goal, uiRows, uiCols, effectDue, saved, reading, loaded>>
engineVars == <<diag, algo, opts, pc, pq, dist, g, f, came, rrtVars, lastRun, heapVars>>

\* lines 400-408: runOnce, the Compute button
Compute ==
  /\ ~effectDue /\ ~animating
  /\ \E result \in {PlannerResult} :
       visited' = result.visited /\ path' = result.path
  /\ quiet' = FALSE
  /\ UNCHANGED <<grid, sceneVars, engineVars, animating, plays>>

\* lines 410-425: animate, from the click to its first await (or to its end,
\* for a result with nothing to play)
Animate ==
  /\ ~effectDue /\ ~animating /\ Len(plays) < MaxPlays
  /\ \E result \in {PlannerResult} :
     \E pb \in {NextStage([visited |-> result.visited, path |-> result.path,
                           phase |-> "entry", i |-> 0])} :
     \E d \in {StageWrites(pb, [visited |-> <<>>, path |-> <<>>,
                                animating |-> TRUE])} :
       /\ visited' = d.visited /\ path' = d.path /\ animating' = d.animating
       /\ plays' = IF pb.phase = "end" THEN plays ELSE Append(plays, pb)
  /\ quiet' = FALSE
  /\ UNCHANGED <<grid, sceneVars, engineVars>>

\* lines 425-434: the timer of a waiting playback fires and animate runs on
\* to its next await, or to its end
AnimateResume ==
  /\ \E k \in 1..Len(plays) :
     \E pb \in {NextStage(plays[k])} :
     \E d \in {StageWrites(pb, [visited |-> visited, path |-> path,
                                animating |-> animating])} :
       /\ visited' = d.visited /\ path' = d.path /\ animating' = d.animating
       /\ plays' = IF pb.phase = "end" THEN RemoveAt(plays, k)
                   ELSE [plays EXCEPT ![k] = pb]
  /\ UNCHANGED <<grid, sceneVars, engineVars, quiet>>

\* lines 437-441: reset
Reset ==
  /\ ~effectDue
  /\ visited' = <<>> /\ path' = <<>> /\ animating' = FALSE
  /\ quiet' = TRUE
  /\ UNCHANGED <<grid, sceneVars, engineVars, plays>>

\* lines 443-446: clearAll
ClearAll ==
  /\ ~effectDue
  /\ grid' = makeGrid(uiRows, uiCols)
  /\ visited' = <<>> /\ path' = <<>> /\ animating' = FALSE
  /\ quiet' = TRUE
  /\ UNCHANGED <<sceneVars, engineVars, plays>>

\* the cells the bounded runs draw walls and weights on
DrawCells == {<<2, 3>>}

\* lines 480-490: randomMaze; every cell but the start and the goal may
\* become a wall, the bounded runs draw the walls among DrawCells
RandomMaze ==
  /\ ~effectDue
  /\ \E W \in SUBSET (DrawCells \ {start, goal}) :
       grid' = [r \in DOMAIN grid |-> [c \in DOMAIN grid[r] |->
                  [wall |-> <<r, c>> \in W, weight |-> 1]]]
  /\ visited' = <<>> /\ path' = <<>> /\ animating' = FALSE
  /\ quiet' = TRUE
  /\ UNCHANGED <<sceneVars, engineVars, plays>>

\* lines 492-503: randomWeights; a wall stays a wall, any other cell gets
\* weight 1 or a weight from 6 to 13, here RandomWeight on cells of DrawCells
RandomWeights ==
  /\ ~effectDue
  /\ \E H \in SUBSET DrawCells :
       grid' = [r \in DOMAIN grid |-> [c \in DOMAIN grid[r] |->
                  IF grid[r][c].wall THEN [wall |-> TRUE, weight |-> 1]
                  ELSE [wall |-> FALSE,
                        weight |-> IF <<r, c>> \in H THEN RandomWeight ELSE 1]]]
  /\ visited' = <<>> /\ path' = <<>> /\ animating' = FALSE
  /\ quiet' = TRUE
  /\ UNCHANGED <<sceneVars, engineVars, plays>>

NextPlay ==
  \/ Compute
  \/ Animate
  \/ AnimateResume
  \/ Reset
  \/ ClearAll
  \/ RandomMaze
  \/ RandomWeights

SpecPlay == InitPlay /\ [][NextPlay]_vars

(***************************************************************************)
(* Notions the properties are stated with, defined on the grid alone.      *)
(***************************************************************************)
GridCells(gr) == Cells(RowsOf(gr), ColsOf(gr))

Occupied(gr, p) == p \in GridCells(gr) /\ gr[p[1]][p[2]].wall

Unoccupied(gr, p) == p \in GridCells(gr) /\ ~gr[p[1]][p[2]].wall

\* one step of the connectivity mode: one axis by one when dg is false,
\* at most one in each axis and not both zero when dg is true
Adjacent(a, b, dg) ==
  LET dr == Abs(a[1] - b[1])
      dc == Abs(a[2] - b[2])
  IN  IF dg THEN dr <= 1 /\ dc <= 1 /\ dr + dc >= 1 ELSE dr + dc = 1

\* the cells reachable from the set S by steps into unoccupied cells
RECURSIVE ReachFrom(_, _, _)
ReachFrom(gr, dg, S) ==
  LET T == S \cup {q \in GridCells(gr) :
                     Unoccupied(gr, q) /\ \E p \in S : Adjacent(p, q, dg)}
  IN  IF T = S THEN S ELSE ReachFrom(gr, dg, T)

Reachable(gr, s, gl, dg) == gl \in ReachFrom(gr, dg, {s})

\* the total cost of a path: the weights of its cells but the first
RECURSIVE CostFrom(_, _, _)
CostFrom(gr, p, i) ==
  IF i > Len(p) THEN 0 ELSE gr[p[i][1]][p[i][2]].weight + CostFrom(gr, p, i + 1)

PathCost(gr, p) == CostFrom(gr, p, 2)

\* more than any path costs
NoPath == 1000 * 1000

\* Bellman-Ford: relaxation of the cost table d up to its fixed point
RECURSIVE Relaxed(_, _, _)
Relaxed(gr, dg, d) ==
  LET via(q) == {d[p] + gr[q[1]][q[2]].weight :
                   p \in {x \in DOMAIN d : Adjacent(x, q, dg) /\ d[x] < NoPath}}
      best(q) == IF Unoccupied(gr, q) /\ via(q) # {}
                 THEN CHOOSE v \in via(q) : \A u \in via(q) : v <= u
                 ELSE NoPath
      nd == [q \in DOMAIN d |-> IF best(q) < d[q] THEN best(q) ELSE d[q]]
  IN  IF nd = d THEN d ELSE Relaxed(gr, dg, nd)

\* the least total cost of a path from s to gl through unoccupied cells
MinCost(gr, s, gl, dg) ==
  Relaxed(gr, dg, [q \in GridCells(gr) |-> IF q = s THEN 0 ELSE NoPath])[gl]

Searching == algo \in {"Dijkstra", "AStar"}

ValidEnds == Unoccupied(grid, start) /\ Unoccupied(grid, goal)

(***************************************************************************)
(* C1: on every grid with costs >= 1, start and goal on unoccupied cells   *)
(* and 4-connectivity, the path returned by runAStar has the same total    *)
(* cost as the path returned by runDijkstra on the same input.             *)
(***************************************************************************)
C1_EqualCost ==
  (pc = "done" /\ algo = "AStar" /\ ~diag /\ ValidEnds)
    => LET d == runDijkstra(grid, start, goal, diag)
       IN  /\ PathCost(grid, path) = PathCost(grid, d.path)
           /\ (path = <<>>) <=> (d.path = <<>>)

\* A* has returned a path around a heavy cell, after a visit order other than Dijkstra's
C1_Witness ==
  /\ pc = "done" /\ algo = "AStar" /\ ~diag /\ ValidEnds
  /\ Len(path) > 3
  /\ \E q \in GridCells(grid) : grid[q[1]][q[2]].weight > 1
  /\ visited # runDijkstra(grid, start, goal, diag).visited

(***************************************************************************)
(* C2: with start # goal and the goal reachable, the path returned by      *)
(* runDijkstra has the least total cost among all paths from start to goal *)
(* through unoccupied cells, under either connectivity mode.               *)
(***************************************************************************)
C2_DijkstraOptimal ==
  (pc = "done" /\ algo = "Dijkstra" /\ start # goal /\ ValidEnds
     /\ Reachable(grid, start, goal, diag))
    => /\ path # <<>>
       /\ PathCost(grid, path) = MinCost(grid, start, goal, diag)

\* the detour: on a grid without walls the returned path is longer than the
\* direct route, which crosses the heavy cell
C2_Witness ==
  /\ pc = "done" /\ algo = "Dijkstra" /\ ~diag /\ start # goal
  /\ \A q \in GridCells(grid) : ~grid[q[1]][q[2]].wall
  /\ Len(path) - 1 > manhattan(start, goal)[1]
  /\ PathCost(grid, path) < Heavy

(***************************************************************************)
(* C3: for runDijkstra and runAStar with start # goal, both unoccupied:    *)
(* the path is non-empty, begins with start and ends with goal exactly     *)
(* when the goal is reachable; when it is not, the path is empty and       *)
(* visited is not.                                                         *)
(***************************************************************************)
C3_PathIffReachable ==
  (pc = "done" /\ Searching /\ start # goal /\ ValidEnds)
    => LET found == path # <<>> /\ path[1] = start /\ path[Len(path)] = goal
       IN  /\ found <=> Reachable(grid, start, goal, diag)
           /\ ~Reachable(grid, start, goal, diag) => (path = <<>> /\ visited # <<>>)

\* a run has ended on a goal that walls cut off from the start
C3_Witness ==
  /\ pc = "done" /\ Searching /\ start # goal /\ ValidEnds
  /\ ~Reachable(grid, start, goal, diag)
  /\ path = <<>> /\ Len(visited) > 1

(***************************************************************************)
(* C4: when start = goal, runDijkstra and runAStar return a path holding   *)
(* exactly that coordinate, and visited begins with it.                    *)
(***************************************************************************)
C4_StartIsGoal ==
  (pc = "done" /\ Searching /\ start = goal)
    => /\ path = <<start>>
       /\ visited # <<>> /\ visited[1] = start

(***************************************************************************)
(* C5: if the start cell or the goal cell is occupied, runDijkstra and     *)
(* runAStar return an empty path.                                          *)
(***************************************************************************)
C5_OccupiedEndsEmptyPath ==
  (pc = "done" /\ Searching /\ (Occupied(grid, start) \/ Occupied(grid, goal)))
    => path = <<>>

(***************************************************************************)
(* C6: no coordinate of a returned path is an occupied cell, for each of   *)
(* the three planners and every input.                                     *)
(***************************************************************************)
C6_PathUnoccupied ==
  pc = "done" => \A i \in 1..Len(path) : ~Occupied(grid, path[i])

(***************************************************************************)
(* C7: in a path returned by runDijkstra or runAStar every coordinate      *)
(* after the first is adjacent to its predecessor under the connectivity   *)
(* mode of the call.                                                       *)
(***************************************************************************)
C7_PathAdjacent ==
  (pc = "done" /\ Searching)
    => \A i \in 2..Len(path) : Adjacent(path[i - 1], path[i], diag)

\* a returned path of several steps takes a diagonal step under 8-connectivity
C7_Witness ==
  /\ pc = "done" /\ Searching /\ Len(path) >= 3 /\ diag
  /\ \E i \in 2..Len(path) :
               Abs(path[i][1] - path[i - 1][1]) + Abs(path[i][2] - path[i - 1][2]) = 2

(***************************************************************************)
(* The specifications of the other input families.                         *)
(***************************************************************************)
\* 8-connected runs across a wider grid
InitWide ==
  /\ grid \in Grids(WideRows, WideCols, WideWalls, 0)
  /\ start \in (0..(WideRows - 1)) \X {WideCols - 1}
  /\ goal \in (0..(WideRows - 1)) \X {0}
  /\ diag = TRUE
  /\ algo \in {"Dijkstra", "AStar"}
  /\ opts = NoOpts
  /\ InitRun

SpecWide == InitWide /\ [][NextSearch]_vars

\* 8-connected runs across a square grid whose goal cell is heavy
InitSquare ==
  /\ start \in (0..(SquareSide - 1)) \X {SquareSide - 1}
  /\ goal \in {<<0, 0>>, <<SquareSide - 1, 0>>}
  /\ grid \in {GridOf(SquareSide, SquareSide, W, {goal} \ W) :
                 W \in SubsetsUpTo(Cells(SquareSide, SquareSide), SquareWalls)}
  /\ diag = TRUE
  /\ algo \in {"Dijkstra", "AStar"}
  /\ opts = NoOpts
  /\ InitRun

SpecSquare == InitSquare /\ [][NextSearch]_vars

\* start or goal out of bounds or on an occupied cell, or a grid without rows
\* or without columns
InvalidInput ==
  IF RowsOf(grid) = 0 THEN TRUE
  ELSE ColsOf(grid) = 0 \/ ~Unoccupied(grid, start) \/ ~Unoccupied(grid, goal)

InitInvalid ==
  /\ grid \in {<<>>} \cup Grids(1, 0, 0, 0) \cup Grids(BadRows, BadCols, BadWalls, 0)
  /\ start \in (-1..BadRows) \X (-1..BadCols)
  /\ goal \in (-1..BadRows) \X (-1..BadCols)
  /\ InvalidInput
  /\ \/ algo \in {"Dijkstra", "AStar"} /\ diag \in BOOLEAN /\ opts = NoOpts
     \/ algo = "RRTStar" /\ diag = FALSE /\ opts \in RrtOpts
  /\ InitRun

NextAll == NextSearch \/ NextRRT

SpecInvalid == InitInvalid /\ [][NextAll]_vars

\* every planner, each run followed to its end: a call is synchronous, so a
\* step that can be taken is taken
InitLive == InitIdle /\ InitRest

\* runOnce on a scene the user has drawn: the scene and the algorithm are the
\* call's inputs, and the call starts at the chosen planner's entry
RunOnce ==
  /\ pc = "idle"
  /\ grid' \in Grids(LiveRows, LiveCols, LiveWalls, LiveHeavy)
  /\ start' \in Cells(LiveRows, LiveCols)
  /\ goal' \in Cells(LiveRows, LiveCols)
  /\ \/ algo' \in {"Dijkstra", "AStar"} /\ diag' \in BOOLEAN /\ opts' = NoOpts
     \/ /\ algo' = "RRTStar" /\ diag' = FALSE
        /\ opts' = [iterations |-> LiveIter, radius |-> UiRadius, step |-> UiStep]
  /\ pc' = "call"
  /\ UNCHANGED <<pq, dist, g, f, came, visited, path, nodes, it, goalIndex, restVars>>

NextLive == RunOnce \/ NextAll

\* a planner call is on the JavaScript stack from its entry to its return
Running == pc \in {"call", "loop", "exit"}

\* A planner call is one synchronous JavaScript call: nothing can block it, so
\* while it is Running its next step is taken; pressing Run is not forced.
\* The steps of CallRuns are the planner's: of the steps NextLive allows, only
\* those of NextAll leave a Running state, and the first disjunct, which no
\* step of NextLive takes on its own, states that ENABLED CallRuns is Running.
CallRuns ==
  \/ /\ Running /\ pc' = "done"
     /\ UNCHANGED <<inputVars, restVars, searchVars, rrtVars, path>>
  \/ NextAll

SpecLive == InitLive /\ [][NextLive]_vars /\ WF_vars(CallRuns)

(***************************************************************************)
(* C8: in a path returned by runRRTStar every coordinate after the first   *)
(* is at most one cell away, in each axis, from its predecessor.           *)
(***************************************************************************)
Chebyshev(a, b) == Max2(Abs(a[1] - b[1]), Abs(a[2] - b[2]))

C8_RRTPathAdjacent ==
  (pc = "done" /\ algo = "RRTStar")
    => \A i \in 2..Len(path) : Chebyshev(path[i - 1], path[i]) <= 1

(***************************************************************************)
(* C8 as amended: for whole-number step and radius, every tree node is at  *)
(* most max(step, radius) cells away, in each axis, from its parent, and   *)
(* so is every coordinate of the returned path from its predecessor.       *)
(***************************************************************************)
C8_RRTPathWithinReach ==
  algo = "RRTStar"
    => LET reach == Max2(opts.step, opts.radius)
       IN  /\ \A i \in 1..Len(nodes) :
                nodes[i].parent # -1
                  => Chebyshev(<<nodes[i].r, nodes[i].c>>,
                               <<nodes[nodes[i].parent + 1].r,
                                 nodes[nodes[i].parent + 1].c>>) <= reach
           /\ pc = "done"
                => \A i \in 2..Len(path) : Chebyshev(path[i - 1], path[i]) <= reach

\* a returned path steps over two cells at once
C8_Witness ==
  /\ pc = "done" /\ algo = "RRTStar" /\ opts.step = UiStep
  /\ \E i \in 2..Len(path) : Chebyshev(path[i - 1], path[i]) = 2

(***************************************************************************)
(* C9: with diagonal movement, every move costing the weight of the cell   *)
(* entered, the path returned by runAStar (Euclidean heuristic) has the    *)
(* same total cost as the path returned by runDijkstra on the same input.  *)
(***************************************************************************)
C9_DiagEqualCost ==
  (pc = "done" /\ algo = "AStar" /\ diag /\ ValidEnds)
    => PathCost(grid, path) = PathCost(grid, runDijkstra(grid, start, goal, diag).path)

\* the reason C9 gives: the Euclidean distance to the goal never exceeds the
\* least cost of reaching it
C9_HeuristicAdmissible ==
  (pc = "done" /\ algo = "AStar" /\ diag /\ ValidEnds)
    => \A q \in GridCells(grid) :
         (Unoccupied(grid, q) /\ MinCost(grid, q, goal, diag) < NoPath)
           => NumLeq(euclid(q, goal), <<MinCost(grid, q, goal, diag), 0>>)

(***************************************************************************)
(* C10: when start or goal is out of bounds or on an occupied cell, or the *)
(* grid has a non-positive dimension, each planner ends with an error and  *)
(* returns no {visited, path} result.                                      *)
(***************************************************************************)
C10_InvalidFailsFast == InvalidInput => pc # "done"

(***************************************************************************)
(* C10 as amended: on such input no planner checks anything.  Each returns *)
(* a {visited, path} result with visited not empty, and with an empty path *)
(* when the goal is out of bounds or occupied; the only error is the       *)
(* exception raised by reading grid[0].length on a grid without rows.      *)
(***************************************************************************)
C10_InvalidRunsRegardless ==
  InvalidInput
    => /\ pc = "threw" => RowsOf(grid) = 0
       /\ (RowsOf(grid) = 0 /\ pc # "call") => pc = "threw"
       /\ pc = "done" => /\ visited # <<>> /\ visited[1] = start
                         /\ ~Unoccupied(grid, goal) => path = <<>>

\* Dijkstra or A* has returned a path that leaves from a start outside the grid
C10_Witness ==
  /\ InvalidInput /\ pc = "done" /\ Searching
  /\ start \notin GridCells(grid)
  /\ path # <<>> /\ path[1] = start

\* how many entries of the array a equal e
Count(a, e) == Cardinality({i \in 1..Len(a) : a[i] = e})

\* the entries of the array a
Entries(a) == {a[i] : i \in 1..Len(a)}

(***************************************************************************)
(* C11: after any sequence of push and pop calls, pop on a non-empty heap  *)
(* returns an entry whose prio is <= the prio of every entry left and      *)
(* removes exactly that entry (the other entries are kept, each as often   *)
(* as before); pop on an empty heap returns null and leaves the heap       *)
(* empty; size is always the pushes minus the successful pops.             *)
(***************************************************************************)
C11_HeapContract ==
  /\ [](size(pq) = pushes - pops)
  /\ [][pushes' = pushes =>
          IF pq = <<>>
          THEN lastPop'.kind = "null" /\ pq' = <<>> /\ pops' = pops
          ELSE /\ lastPop'.kind = "entry"
               /\ pops' = pops + 1
               /\ \A i \in 1..Len(pq') : NumLeq(lastPop'.prio, pq'[i].prio)
               /\ LET top == [prio |-> lastPop'.prio, node |-> lastPop'.node]
                  IN  \A e \in Entries(pq) :
                        Count(pq, e) = Count(pq', e) + (IF e = top THEN 1 ELSE 0)]_vars

\* a second pop has returned an entry and left two or more entries, one of
\* them of the priority returned
C11_Witness ==
  /\ pops >= 2 /\ lastPop.kind = "entry" /\ size(pq) >= 2
  /\ \E i \in 1..Len(pq) : pq[i].prio = lastPop.prio /\ pq[i].node # lastPop.node

\* the coordinates of the tree nodes ns, in insertion order
NodeCoords(ns) == [i \in 1..Len(ns) |-> <<ns[i].r, ns[i].c>>]

(***************************************************************************)
(* C12: runRRTStar returns a non-empty path exactly when a goal connection *)
(* occurred within the iteration budget, and that path begins with start   *)
(* and ends with goal.  When the budget is used up without a goal          *)
(* connection the path is empty and visited is the start followed by every *)
(* inserted tree node in insertion order.                                  *)
(***************************************************************************)
C12_RRTPathIffConnected ==
  (algo = "RRTStar" /\ pc = "done")
    => /\ (path # <<>>) <=> (goalIndex # -1)
       /\ path # <<>> => path[1] = start /\ path[Len(path)] = goal
       /\ visited # <<>> /\ visited[1] = start
       /\ goalIndex = -1
            => /\ it = opts.iterations
               /\ path = <<>>
               /\ visited = NodeCoords(nodes)
       /\ goalIndex # -1
            => /\ it <= opts.iterations
               /\ goalIndex = Len(nodes) - 1
               /\ visited = NodeCoords(SubSeq(nodes, 1, Len(nodes) - 1))

\* the budget was used up without a goal connection, two nodes inserted
C12_Witness ==
  /\ algo = "RRTStar" /\ pc = "done" /\ goalIndex = -1
  /\ it = opts.iterations /\ Len(visited) >= 3 /\ path = <<>>

(***************************************************************************)
(* C13: importing a scene written by exportJSON leaves the component, once *)
(* the state updates and the [rows, cols] effect have settled, with the    *)
(* exported rows, cols, grid, start and goal, whatever its state before,   *)
(* a state of other rows or cols included.                                 *)
(***************************************************************************)
C13_ExportImportRoundTrip ==
  (loaded # NoFile /\ loaded = saved /\ ~effectDue)
    => /\ uiRows = saved.rows
       /\ uiCols = saved.cols
       /\ grid = GridFromJson(saved.grid)
       /\ start = CoordOf(saved, "start")
       /\ goal = CoordOf(saved, "goal")

\* a scene file importJSON ought to turn down: not JSON, without grid, rows,
\* cols, start or goal, or with a grid that is not rows x cols
Malformed(file) ==
  IF ~Parses(file) THEN TRUE
  ELSE IF Rejected(file) THEN TRUE
  ELSE \/ "start" \notin DOMAIN file
       \/ "goal" \notin DOMAIN file
       \/ Len(file.grid) # file.rows
       \/ \E i \in 1..Len(file.grid) : Len(file.grid[i]) # file.cols

\* what the planners are called with has the shape rows x cols and start and
\* goal in it
SceneWellFormed ==
  /\ DOMAIN grid = 0..(uiRows - 1)
  /\ \A r \in DOMAIN grid : DOMAIN grid[r] = 0..(uiCols - 1)
  /\ start \in Cells(uiRows, uiCols)
  /\ goal \in Cells(uiRows, uiCols)

(***************************************************************************)
(* C14: importJSON turns a malformed scene down (a grid whose row or       *)
(* column count is not rows / cols, a missing start or goal) and leaves    *)
(* rows, cols, grid, start and goal as they were, so that the grid a       *)
(* planner is called with always has the shape rows x cols and start and   *)
(* goal are defined and in bounds.                                         *)
(***************************************************************************)
C14_ImportRejectsMalformed ==
  /\ [][(reading # NoFile /\ reading' = NoFile /\ Malformed(reading))
          => UNCHANGED <<uiRows, uiCols, grid, start, goal>>]_vars
  /\ [](~effectDue => SceneWellFormed)

NoRepeat(s) == \A i, j \in 1..Len(s) : s[i] = s[j] => i = j

(***************************************************************************)
(* C16: no cell is expanded twice: for runDijkstra and for runAStar, under *)
(* either connectivity mode and any cell costs >= 1, no coordinate occurs  *)
(* more than once in visited.                                              *)
(***************************************************************************)
C16_NoCellVisitedTwice == Searching => NoRepeat(visited)

(***************************************************************************)
(* C17: in runDijkstra cells are appended to visited in non-decreasing     *)
(* order of their cumulative cost, the first entry is the start, and once  *)
(* a cell is in visited its dist and its predecessor (came) never change   *)
(* again; the goal, if reached, is the last entry of visited and nothing   *)
(* is expanded after it.                                                   *)
(***************************************************************************)
C17_DijkstraSettles ==
  /\ [](algo = "Dijkstra"
          => /\ visited # <<>> => visited[1] = start
             /\ \A i, j \in 1..Len(visited) :
                  i < j => dist[visited[i]] <= dist[visited[j]]
             /\ \A i \in 1..Len(visited) : visited[i] = goal => i = Len(visited)
             /\ (visited # <<>> /\ visited[Len(visited)] = goal)
                  => pc \in {"exit", "done"})
  /\ [][algo = "Dijkstra"
          => \A i \in 1..Len(visited) :
               LET v == visited[i]
               IN  /\ visited'[i] = v
                   /\ dist'[v] = dist[v]
                   /\ IF v \in DOMAIN came
                      THEN v \in DOMAIN came' /\ came'[v] = came[v]
                      ELSE v \notin DOMAIN came']_vars

\* a run has reached the goal after expanding a heavy cell and cells of
\* lower cost
C17_Witness ==
  /\ algo = "Dijkstra" /\ pc = "done"
  /\ Len(visited) >= 4 /\ visited[Len(visited)] = goal
  /\ \E i \in 1..Len(visited) :
       /\ Unoccupied(grid, visited[i])
       /\ grid[visited[i][1]][visited[i][2]].weight = Heavy
       /\ dist[visited[1]] < dist[visited[i]]

\* the best-known costs of the cells: dist in runDijkstra, g in runAStar
Known == IF algo = "Dijkstra" THEN dist ELSE g

(***************************************************************************)
(* C18: every planning run terminates.  runDijkstra and runAStar end with  *)
(* the queue empty or the goal popped, and a cell's best-known cost only   *)
(* ever decreases; runRRTStar makes at most `iterations` iterations and    *)
(* holds at most iterations + 1 nodes beyond the root, and its path is no  *)
(* longer than the tree.                                                   *)
(***************************************************************************)
C18_Terminates ==
  /\ (pc = "call" ~> pc = "done")
  /\ [](Searching /\ pc \in {"exit", "done"}
          => pq = <<>> \/ (visited # <<>> /\ visited[Len(visited)] = goal))
  /\ [](algo = "RRTStar"
          => /\ it <= opts.iterations
             /\ Len(nodes) <= it + 2
             /\ Len(nodes) - 1 <= opts.iterations + 1
             /\ Len(path) <= Len(nodes))
  /\ [][Searching =>
          \A k \in DOMAIN Known : k \in DOMAIN Known' /\ Known'[k] <= Known[k]]_vars

\* a search has ended with its queue exhausted, the goal not reached
C18_Witness ==
  /\ Searching /\ pc = "done" /\ pq = <<>>
  /\ Len(visited) >= 3 /\ path = <<>>

(***************************************************************************)
(* C19: at every point of a runRRTStar run, for every tree node n that has *)
(* a parent p, the walk of lineFree from p to n (the direction in which    *)
(* insertion, rewiring and the goal connection walk it) finds every cell   *)
(* in bounds and unoccupied, both ends included; and so does the walk      *)
(* between any two consecutive coordinates of the returned path.           *)
(***************************************************************************)
C19_TreeEdgesFree ==
  algo = "RRTStar"
    => /\ \A i \in 1..Len(nodes) :
            nodes[i].parent # -1
              => /\ nodes[i].parent + 1 \in 1..Len(nodes)
                 /\ lineFree(grid, nodes[nodes[i].parent + 1], nodes[i])
                 /\ isFree(grid, nodes[i].r, nodes[i].c)
                 /\ isFree(grid, nodes[nodes[i].parent + 1].r, nodes[nodes[i].parent + 1].c)
       /\ pc = "done"
            => \A k \in 2..Len(path) : lineFree(grid, Pt(path[k - 1]), Pt(path[k]))

\* a returned path beside a wall, in a tree with a rewired edge (a parent
\* inserted after its child), over a segment with a cell between its ends
C19_Witness ==
  /\ algo = "RRTStar" /\ pc = "done" /\ Len(path) >= 3
  /\ \E cell \in Cells(RowsOf(grid), ColsOf(grid)) : grid[cell[1]][cell[2]].wall
  /\ \E i \in 1..Len(nodes) : nodes[i].parent + 1 > i
  /\ \E k \in 2..Len(path) : Chebyshev(path[k - 1], path[k]) = 2

\* the node the last extension inserted (1-based index), 0 before the first:
\* the goal node, when connected, is pushed after it, and a rewiring pass
\* only ever changes the parent of nodes older than the one just inserted
LastExtended == IF goalIndex = -1 THEN Len(nodes) ELSE Len(nodes) - 1

\* the squared distance of the last inserted node from its parent
ExtensionSq ==
  DistSq(nodes[LastExtended], nodes[nodes[LastExtended].parent + 1])

\* d <= stp + sqrt(2)/2 for a distance d given by its square dsq
WithinRoundedStep(dsq, stp) ==
  LET over == 2 * dsq - 2 * stp * stp - 1
  IN  over <= 0 \/ over * over <= 8 * stp * stp

(***************************************************************************)
(* C20: for every tree node `from` and every sample `to`, the point        *)
(* steer(from, to) returns is at Euclidean distance <= step from `from`    *)
(* (dr*dr + dc*dc <= step*step), and so every node an extension inserts is *)
(* within step of its parent when it is inserted.                          *)
(***************************************************************************)
C20_SteerWithinStep ==
  algo = "RRTStar"
    => /\ \A i \in 1..Len(nodes), to \in Samples(grid, goal) :
            DistSq(nodes[i], steer(nodes[i], Pt(to), opts.step)) <= opts.step * opts.step
       /\ LastExtended > 1 => ExtensionSq <= opts.step * opts.step

(***************************************************************************)
(* C20 as amended: for a whole-number step, the point steer(from, to)      *)
(* returns is at most step cells from `from` in each axis and at Euclidean *)
(* distance at most step + sqrt(2)/2, each coordinate being rounded by at  *)
(* most one half; and so is every inserted node from its parent.           *)
(***************************************************************************)
C20_SteerWithinRoundedStep ==
  algo = "RRTStar"
    => /\ \A i \in 1..Len(nodes), to \in Samples(grid, goal) :
            LET p == steer(nodes[i], Pt(to), opts.step)
            IN  /\ Chebyshev(<<nodes[i].r, nodes[i].c>>, <<p.r, p.c>>) <= opts.step
                /\ WithinRoundedStep(DistSq(nodes[i], p), opts.step)
       /\ LastExtended > 1
            => /\ Chebyshev(<<nodes[LastExtended].r, nodes[LastExtended].c>>,
                            <<nodes[nodes[LastExtended].parent + 1].r,
                              nodes[nodes[LastExtended].parent + 1].c>>) <= opts.step
               /\ WithinRoundedStep(ExtensionSq, opts.step)

\* an extension has inserted a node farther than step from its parent
C20_Witness ==
  /\ algo = "RRTStar" /\ LastExtended > 1
  /\ ExtensionSq > opts.step * opts.step

\* following parent from node i (1-based) reaches node 0 in at most fuel links
RECURSIVE ReachesRoot(_, _, _)
ReachesRoot(ns, i, fuel) ==
  IF i = 1 THEN TRUE
  ELSE IF fuel = 0 \/ ns[i].parent + 1 \notin 1..Len(ns) THEN FALSE
  ELSE ReachesRoot(ns, ns[i].parent + 1, fuel - 1)

\* the tree of nodes is rooted at the start
RootedTree(ns, s) ==
  ns # <<>> =>
    /\ ns[1].parent = -1 /\ ns[1].cost = 0
    /\ ns[1].r = s[1] /\ ns[1].c = s[2]
    /\ \A i \in 2..Len(ns) :
         /\ ns[i].parent \in 0..(Len(ns) - 1)
         /\ ReachesRoot(ns, i, Len(ns) - 1)

(***************************************************************************)
(* C21: the RRT* tree stays a tree rooted at the start.  Node 0 is the     *)
(* start with parent -1 and cost 0; every other node's parent is an index  *)
(* of an existing node, and following parent from any node reaches node 0  *)
(* without passing a node twice; a step never removes or moves a node; and *)
(* a returned path begins at the start.                                    *)
(***************************************************************************)
C21_TreeRootedAtStart ==
  /\ [](algo = "RRTStar"
         => /\ RootedTree(nodes, start)
            /\ (pc = "done" /\ path # <<>>) => path[1] = start)
  /\ [][algo = "RRTStar"
         => /\ Len(nodes') >= Len(nodes)
            /\ \A i \in 1..Len(nodes) :
                 nodes'[i].r = nodes[i].r /\ nodes'[i].c = nodes[i].c]_vars

\* a path returned from a tree of at least four nodes, one of them rewired
\* (its parent was inserted after it)
C21_Witness ==
  /\ algo = "RRTStar" /\ pc = "done" /\ path # <<>>
  /\ Len(nodes) >= 4
  /\ \E i \in 2..Len(nodes) : nodes[i].parent + 1 > i

(***************************************************************************)
(* C22: at every point of a runRRTStar run the stored cost of every node n *)
(* that has a parent p (the goal node and the descendants of rewired nodes *)
(* included) is p.cost + cellWeight(n) x distance(p, n).                   *)
(***************************************************************************)
C22_CostIsAccumulated ==
  algo = "RRTStar"
    => \A i \in 1..Len(nodes) :
         nodes[i].parent # -1
           => nodes[i].cost
                = nodes[nodes[i].parent + 1].cost
                  + grid[nodes[i].r][nodes[i].c].weight
                    * rrtDist(nodes[nodes[i].parent + 1], nodes[i])

(***************************************************************************)
(* C23: rewiring only ever improves a node.  In every iteration of         *)
(* runRRTStar, an existing node j whose parent or cost changes gets the    *)
(* node inserted in that iteration as its parent, is within radius of it,  *)
(* the line walk from that node to j is collision-free, and the stored     *)
(* cost of j strictly decreases; every other existing node keeps its       *)
(* parent and its cost, so no stored cost ever increases.                  *)
(***************************************************************************)
C23_RewireOnlyImproves ==
  [][algo = "RRTStar"
       => \A j \in 1..Len(nodes) :
            /\ j \in 1..Len(nodes')
            /\ nodes'[j].cost <= nodes[j].cost
            /\ \/ nodes'[j] = nodes[j]
               \/ /\ Len(nodes') > Len(nodes)
                  /\ nodes'[j].parent = Len(nodes)
                  /\ DistSq(nodes[j], nodes'[Len(nodes) + 1])
                       <= opts.radius * opts.radius
                  /\ lineFree(grid, nodes'[Len(nodes) + 1], nodes[j])
                  /\ nodes'[j].cost < nodes[j].cost
                  /\ nodes'[j].r = nodes[j].r /\ nodes'[j].c = nodes[j].c]_vars

\* the latest iteration has re-parented an older node to the node it inserted
C23_Witness ==
  /\ algo = "RRTStar" /\ pc \in {"loop", "exit"}
  /\ LastExtended > 2
  /\ \E j \in 2..(LastExtended - 1) : nodes[j].parent + 1 = LastExtended

(***************************************************************************)
(* C24: at most one playback of animate() is active at a time.  While a    *)
(* playback is waiting on a timer no second playback has been started, and *)
(* a step that is not a step of the playback leaves the displayed visited  *)
(* and path as they are or empties them: Compute does not write to them.   *)
(***************************************************************************)
C24_OnePlayback ==
  /\ [](Len(plays) <= 1)
  /\ [][(plays # <<>> /\ plays' = plays)
         => \/ visited' = visited /\ path' = path
            \/ visited' = <<>> /\ path' = <<>>]_vars

(***************************************************************************)
(* C25: the displayed result reflects one planner run.  When a playback    *)
(* ends, the displayed visited and path are the visited and path the       *)
(* planner returned to it; and once Reset, Clear, Random maze or Random    *)
(* weights has emptied the display, visited and path stay empty until      *)
(* Compute or Animate is pressed, also when a playback was running.        *)
(***************************************************************************)
C25_DisplayIsOneRun ==
  /\ [](quiet => visited = <<>> /\ path = <<>>)
  /\ [][Len(plays') < Len(plays)
         => \E k \in 1..Len(plays) :
              /\ plays' = RemoveAt(plays, k)
              /\ visited' = plays[k].visited
              /\ path' = plays[k].path]_vars

====
